---- MODULE Spec2Model ----
(***************************************************************************)
(* Model of the OpenPGP card-data decoder of piv/gpg_data.go: the 1-based  *)
(* byte accessors, the extended-capabilities decoder, the card identity    *)
(* record with its per-key accessors, and the cardholder-name normalizer.  *)
(*                                                                         *)
(* Conventions.  A Go []byte is a sequence of integers 0..255; the nil     *)
(* slice is the out-of-band value NilBytes.  A Go string produced by       *)
(* formatting is a TLA+ string.  A Go error is the name of the sentinel it *)
(* wraps (errors.Is), "nil" for no error, and "panic" for a run-time panic *)
(* (index or slice out of range).                                          *)
(***************************************************************************)
EXTENDS Integers, Sequences, FiniteSets, TLC

VARIABLES g, ret

vars == <<g, ret>>

\* ------------------------------------------------------------------ errors
NoError == "nil"
ErrKeyNotPresent == "ErrKeyNotPresent"
ErrNoSuchTag == "ErrNoSuchTag"
ErrNoSuchAlgorithm == "ErrNoSuchAlgorithm"
ErrUnknownKeyOrigin == "ErrUnknownKeyOrigin"
ErrNotFound == "ErrNotFound"
ErrTooShort == "ErrTooShort"
\* a run-time panic of the Go runtime: index or slice bounds out of range
Panic == "panic"

\* ------------------------------------------------------------------ bytes
\* the nil []byte; its len() is 0 and it equals no allocated slice
NilBytes == <<-1>>

len(b) == IF b = NilBytes THEN 0 ELSE Len(b)

\* b[lo:hi] of Go (0-based, hi exclusive), for 0 <= lo <= hi <= len(b)
Slice(b, lo, hi) == IF b = NilBytes THEN <<>> ELSE SubSeq(b, lo + 1, hi)

\* what a call leaves behind: the operation, its arguments, the value and
\* the error it returned
Result(op, arg, val, err) == [op |-> op, arg |-> arg, val |-> val, err |-> err]

NoCall == Result("none", <<>>, <<>>, NoError)

\* --------------------------------------------- 1-based byte accessors
\* getBytesWith1BasedIndexing(b, start, end): b[start-1 : end], ErrNotFound
\* when b is nil or start or end lies beyond len(b).  The slice expression
\* panics when start-1 < 0 or start-1 > end.
getBytesWith1BasedIndexing(b, start, end) ==
    IF b = NilBytes \/ start > len(b) \/ end > len(b)
    THEN [val |-> NilBytes, err |-> ErrNotFound]
    ELSE IF start - 1 < 0 \/ start - 1 > end
    THEN [val |-> NilBytes, err |-> Panic]
    ELSE [val |-> Slice(b, start - 1, end), err |-> NoError]

getByteOffByOne(b, index) ==
    IF b = NilBytes \/ index > len(b) + 1
    THEN [val |-> 0, err |-> ErrNotFound]
    ELSE IF index - 1 < 0 \/ index - 1 >= len(b)
    THEN [val |-> 0, err |-> Panic]
    ELSE [val |-> b[index], err |-> NoError]

\* getByteWith1BasedIndexing(b, index): b[index-1], ErrNotFound when b is
\* nil or index lies beyond len(b).  The index expression panics when
\* index-1 < 0.
getByteWith1BasedIndexing(b, index) ==
    IF b = NilBytes \/ index > len(b)
    THEN [val |-> 0, err |-> ErrNotFound]
    ELSE IF index - 1 < 0
    THEN [val |-> 0, err |-> Panic]
    ELSE [val |-> b[index], err |-> NoError]

\* ------------------------------------------- inputs of the byte accessors
MaxBlockLen == 3

BlockBytes == {0, 7, 255}

RECURSIVE SeqsUpTo(_, _)
SeqsUpTo(S, n) ==
    IF n = 0 THEN {<<>>}
    ELSE LET shorter == SeqsUpTo(S, n - 1)
         IN  shorter \cup {Append(s, x) : s \in {t \in shorter : Len(t) = n - 1}, x \in S}

Blocks == {NilBytes} \cup SeqsUpTo(BlockBytes, MaxBlockLen)

\* positions handed to the accessors: below, inside and beyond every block
Positions == (-1) .. (MaxBlockLen + 2)

\* a call that was requested and has not run yet
Pending == "pending"

Request(op, arg) == Result(op, arg, <<>>, Pending)

GetByteRequests ==
    {Request("getByteWith1BasedIndexing", <<b, index>>) :
        b \in Blocks, index \in Positions}

GetBytesRequests ==
    {Request("getBytesWith1BasedIndexing", <<b, start, end>>) :
        b \in Blocks, start \in Positions, end \in Positions}

CallGetByte ==
    /\ ret.op = "getByteWith1BasedIndexing"
    /\ ret.err = Pending
    /\ ret' = LET r == getByteWith1BasedIndexing(ret.arg[1], ret.arg[2])
              IN  Result(ret.op, ret.arg, r.val, r.err)
    /\ UNCHANGED g

CallGetBytes ==
    /\ ret.op = "getBytesWith1BasedIndexing"
    /\ ret.err = Pending
    /\ ret' = LET r == getBytesWith1BasedIndexing(ret.arg[1], ret.arg[2], ret.arg[3])
              IN  Result(ret.op, ret.arg, r.val, r.err)
    /\ UNCHANGED g

\* the absent record: a nil *GpgData
Nil == [isNil |-> TRUE]

InitAccessor == g = Nil /\ ret \in GetByteRequests \cup GetBytesRequests

NextAccessor == CallGetByte \/ CallGetBytes

SpecAccessor == InitAccessor /\ [][NextAccessor]_vars

\* ------------------------------------------------ cardholder name
\* the characters of the cardholder-name encoding, as byte values
LessThan == 60
Space == 32
NewLine == 10

\* string(bytes) for the characters the inputs use
Chr(c) ==
    CASE c = LessThan -> "<"
      [] c = Space -> " "
      [] c = NewLine -> "\n"
      [] c = 65 -> "A" [] c = 66 -> "B" [] c = 68 -> "D" [] c = 69 -> "E"
      [] c = 71 -> "G" [] c = 72 -> "H" [] c = 74 -> "J" [] c = 78 -> "N"
      [] c = 79 -> "O" [] c = 82 -> "R" [] c = 86 -> "V"

RECURSIVE string(_)
string(bytes) ==
    IF bytes = <<>> THEN "" ELSE Chr(Head(bytes)) \o string(Tail(bytes))

NameNotSet == "[not set]"

suffix == <<LessThan, LessThan>>

suffixLen == Len(suffix)

\* strings.Index(s, sub): 0-based index of the first occurrence, -1 if none
Index(s, sub) ==
    LET hits == {i \in 0 .. (Len(s) - Len(sub)) : SubSeq(s, i + 1, i + Len(sub)) = sub}
    IN  IF hits = {} THEN -1 ELSE CHOOSE i \in hits : \A j \in hits : i <= j

\* strings.ReplaceAll(s, old, new) for a one-byte old and new
ReplaceAll(s, old, new) == [i \in 1 .. Len(s) |-> IF s[i] = old THEN new ELSE s[i]]

ParseNameNoReplace(name) ==
    IF len(name) = 0 THEN NameNotSet
    ELSE LET i == Index(name, suffix)
         IN  IF i >= 0
             THEN string(Slice(name, i + suffixLen, Len(name)))
                  \o (IF i + suffixLen < Len(name) THEN "\n" ELSE "")
                  \o string(Slice(name, 0, i))
             ELSE string(name)

ParseCardHolderName(name) ==
    IF len(name) = 0 THEN NameNotSet
    ELSE LET nameStringLen == Len(name)
             found == Index(name, suffix)
             i == IF found >= 0 THEN found ELSE nameStringLen
             after == IF found >= 0
                      THEN string(Slice(name, found + suffixLen, nameStringLen))
                           \o (IF found + suffixLen < nameStringLen THEN "\n" ELSE "")
                      ELSE ""
         IN  after \o string(ReplaceAll(Slice(name, 0, i), LessThan, Space))

MaxNameLen == 5

NameBytes == {LessThan, 65, 66}

\* "DOE<<JOHN", "DOE", "VAN<DER<BERG<<ANNA"
NameExamples ==
    { <<68, 79, 69, 60, 60, 74, 79, 72, 78>>,
      <<68, 79, 69>>,
      <<86, 65, 78, 60, 68, 69, 82, 60, 66, 69, 82, 71, 60, 60, 65, 78, 78, 65>> }

Names == {NilBytes} \cup SeqsUpTo(NameBytes, MaxNameLen) \cup NameExamples

NameRequests == {Request("ParseCardHolderName", <<n>>) : n \in Names}

CallParseCardHolderName ==
    /\ ret.op = "ParseCardHolderName"
    /\ ret.err = Pending
    /\ ret' = Result(ret.op, ret.arg, ParseCardHolderName(ret.arg[1]), NoError)
    /\ UNCHANGED g

InitName == g = Nil /\ ret \in NameRequests

NextName == CallParseCardHolderName

SpecName == InitName /\ [][NextName]_vars

\* ------------------------------------------------------ the record
\* tag paths of the flattened TLV mapping
aidTag == "6E.4F"
cardHolderTag == "65.5B"
extendedCapabilitiesTag == "6E.73.C0"
keyAlgorithmSignatureAttributesTag == "6E.73.C1"
keyAlgorithmDecryptionAttributesTag == "6E.73.C2"
keyAlgorithmAuthenticationAttributesTag == "6E.73.C3"
keyInformationTag == "6E.73.C5"
keyDateTag == "6E.73.CD"
keyOriginAttributesTag == "6E.73.DE"

\* KeyType and its ordinals
SignatureKey == 0
DecryptionKey == 1
AuthenticationKey == 2
AttestKey == 3
KeyTypeSize == 4

KeyTypes == {SignatureKey, DecryptionKey, AuthenticationKey, AttestKey}

\* keyType.Offset(): the key's position in the one-byte-per-key origin array
Offset(keyType) == keyType

\* KeyOrigin and its codes
KeyNotPresent == 0
KeyOriginLast == 3

\* SecureMessagingAlgorithm and its codes
NoSecureMessaging == 0
SecureMessagingAlgorithmLast == 3

\* lengths of one key's entry in the packed per-key tags
keyFingerprintLen == 20
keyDateLen == 4

\* bits of byte 1 of the extended capabilities, bit 8 first
SecureMessaging == 128
GetChallenge == 64
KeyImport == 32
PWStatusChangeable == 16
PrivateUseDOs == 8
AlgorithmAttributesChangeable == 4
PSODECENCwithAES == 2
KDFSupported == 1

\* a & b on bytes
RECURSIVE BitAnd(_, _)
BitAnd(a, b) ==
    IF a = 0 \/ b = 0 THEN 0
    ELSE 2 * BitAnd(a \div 2, b \div 2) + (IF a % 2 = 1 /\ b % 2 = 1 THEN 1 ELSE 0)

\* binary.BigEndian.Uint16 and Uint32; the inputs keep the first byte of a
\* 32-bit value below 128, inside the integers TLC computes with
Uint16(bs) == bs[1] * 256 + bs[2]

Uint32(bs) == ((bs[1] * 256 + bs[2]) * 256 + bs[3]) * 256 + bs[4]

HexDigits == <<"0", "1", "2", "3", "4", "5", "6", "7", "8", "9", "A", "B", "C", "D", "E", "F">>

\* fmt verbs %X and %02X on a byte
FormatX(b) ==
    IF b < 16 THEN HexDigits[b + 1] ELSE HexDigits[(b \div 16) + 1] \o HexDigits[(b % 16) + 1]

Format02X(b) == HexDigits[(b \div 16) + 1] \o HexDigits[(b % 16) + 1]

\* UpperCaseHexString(bytes): two uppercase hex digits per byte, no separators
RECURSIVE UpperCaseHexString(_)
UpperCaseHexString(bytes) ==
    IF bytes = <<>> THEN "" ELSE Format02X(Head(bytes)) \o UpperCaseHexString(Tail(bytes))

\* the record right after construction: the mapping set, everything else zero
NewGpgData(tlv) ==
    [ isNil |-> FALSE,
      tlvValues |-> tlv,
      Reader |-> "",
      Serial |-> "",
      SerialInt |-> 0,
      LongName |-> "",
      CardHolder |-> "",
      Rid |-> "",
      Application |-> "",
      Version |-> "",
      Manufacturer |-> "",
      AppletVersion |-> "",
      SecureMessagingSupported |-> FALSE,
      SecureMessaging |-> NoSecureMessaging,
      GetChallengeSupported |-> FALSE,
      MaximumChallengeLength |-> 0,
      KeyImportSupported |-> FALSE,
      PWStatusChangeable |-> FALSE,
      PrivateUseDOsSupported |-> FALSE,
      AlgorithmAttributesChangeable |-> FALSE,
      SupportsPSODecryptionEncryptionWithAES |-> FALSE,
      KDFSupported |-> FALSE,
      PinBlock2Supported |-> FALSE,
      MSECommandSupported |-> FALSE,
      MaximumCardholderCertificatesLength |-> 0,
      MaximumSpecialDOsLength |-> 0 ]

\* HasTag(key): the value's length and whether the tag is in the mapping
HasTag(r, key) ==
    IF key \in DOMAIN r.tlvValues
    THEN [len |-> len(r.tlvValues[key]), ok |-> TRUE]
    ELSE [len |-> 0, ok |-> FALSE]

\* GetTag(key, expectedLen): the tag's value when the tag is in the mapping
\* and holds at least expectedLen bytes
GetTag(r, key, expectedLen) ==
    IF key \notin DOMAIN r.tlvValues
    THEN [val |-> NilBytes, err |-> ErrNoSuchTag]
    ELSE IF len(r.tlvValues[key]) < expectedLen
    THEN [val |-> NilBytes, err |-> ErrTooShort]
    ELSE [val |-> r.tlvValues[key], err |-> NoError]

getKeyLenOrdinalFromOne(keyType, length) ==
    [offset |-> (keyType + 1) * length, expectedLen |-> (keyType + 1) * length + length]

\* getKeyLen(keyType, len): where the key's entry starts and ends
getKeyLen(keyType, length) ==
    LET index == keyType
        offset == index * length
    IN  [offset |-> offset, expectedLen |-> offset + length]

isSupported(capabilitiesByte, flagValue) ==
    BitAnd(capabilitiesByte, flagValue) = flagValue

setSecureMessagingUnchecked(r, capabilitiesByte, smByte) ==
    IF BitAnd(capabilitiesByte, SecureMessaging) # SecureMessaging
    THEN [g |-> r, err |-> NoError]
    ELSE [g |-> [r EXCEPT !.SecureMessagingSupported = TRUE, !.SecureMessaging = smByte],
          err |-> NoError]

setSecureMessagingAnyBit(r, capabilitiesByte, smByte) ==
    IF capabilitiesByte = 0
    THEN [g |-> r, err |-> NoError]
    ELSE IF smByte > SecureMessagingAlgorithmLast
    THEN [g |-> r, err |-> ErrNoSuchAlgorithm]
    ELSE [g |-> [r EXCEPT !.SecureMessagingSupported = TRUE, !.SecureMessaging = smByte],
          err |-> NoError]

setSecureMessaging(r, capabilitiesByte, smByte) ==
    IF r.isNil
    THEN [g |-> r, err |-> ErrKeyNotPresent]
    ELSE IF BitAnd(capabilitiesByte, SecureMessaging) # SecureMessaging
    THEN [g |-> r, err |-> NoError]
    ELSE IF smByte > SecureMessagingAlgorithmLast
    THEN [g |-> r, err |-> ErrNoSuchAlgorithm]
    ELSE [g |-> [r EXCEPT !.SecureMessagingSupported = TRUE, !.SecureMessaging = smByte],
          err |-> NoError]

setGetChallengeSupportedAtLeastTwo(r, capabilitiesByte, challenge) ==
    IF r.isNil
    THEN [g |-> r, err |-> ErrKeyNotPresent]
    ELSE IF BitAnd(capabilitiesByte, GetChallenge) # GetChallenge
    THEN [g |-> r, err |-> NoError]
    ELSE IF len(challenge) < 2
    THEN [g |-> r, err |-> ErrTooShort]
    ELSE [g |-> [r EXCEPT !.GetChallengeSupported = TRUE,
                          !.MaximumChallengeLength = Uint16(challenge)],
          err |-> NoError]

setGetChallengeSupported(r, capabilitiesByte, challenge) ==
    IF r.isNil
    THEN [g |-> r, err |-> ErrKeyNotPresent]
    ELSE IF BitAnd(capabilitiesByte, GetChallenge) # GetChallenge
    THEN [g |-> r, err |-> NoError]
    ELSE IF len(challenge) # 2
    THEN [g |-> r, err |-> ErrTooShort]
    ELSE [g |-> [r EXCEPT !.GetChallengeSupported = TRUE,
                          !.MaximumChallengeLength = Uint16(challenge)],
          err |-> NoError]

\* loadExtendedData from the decoding of byte 1's remaining bits on: the six
\* flags, bytes 5-6, 7-8, 9 and 10
loadExtendedTail(r, tag, capabilitiesByte) ==
    LET g1 == [r EXCEPT
                 !.KeyImportSupported = isSupported(capabilitiesByte, KeyImport),
                 !.PWStatusChangeable = isSupported(capabilitiesByte, PWStatusChangeable),
                 !.PrivateUseDOsSupported = isSupported(capabilitiesByte, PrivateUseDOs),
                 !.AlgorithmAttributesChangeable =
                     isSupported(capabilitiesByte, AlgorithmAttributesChangeable),
                 !.SupportsPSODecryptionEncryptionWithAES =
                     isSupported(capabilitiesByte, PSODECENCwithAES),
                 !.KDFSupported = isSupported(capabilitiesByte, KDFSupported)]
        b56 == getBytesWith1BasedIndexing(tag, 5, 6)
    IN  IF b56.err # NoError THEN [g |-> g1, err |-> b56.err]
        ELSE
        LET g2 == [g1 EXCEPT !.MaximumCardholderCertificatesLength = Uint16(b56.val)]
            b78 == getBytesWith1BasedIndexing(tag, 7, 8)
        IN  IF b78.err # NoError THEN [g |-> g2, err |-> b78.err]
            ELSE
            LET g3 == [g2 EXCEPT !.MaximumSpecialDOsLength = Uint16(b78.val)]
                b9 == getByteWith1BasedIndexing(tag, 9)
            IN  IF b9.err # NoError THEN [g |-> g3, err |-> b9.err]
                ELSE
                LET g4 == [g3 EXCEPT !.PinBlock2Supported = isSupported(b9.val, 1)]
                    b10 == getByteWith1BasedIndexing(tag, 10)
                IN  IF b10.err # NoError THEN [g |-> g4, err |-> b10.err]
                    ELSE [g |-> [g4 EXCEPT !.MSECommandSupported = isSupported(b10.val, 1)],
                          err |-> NoError]

\* loadExtendedData from the read of byte 1 on, for a tag that was found
loadExtendedTag(r, tag) ==
    LET capabilitiesByte == getByteWith1BasedIndexing(tag, 1)
    IN  IF capabilitiesByte.err # NoError THEN [g |-> r, err |-> capabilitiesByte.err]
        ELSE
        LET mByte == getByteWith1BasedIndexing(tag, 2)
        IN  IF mByte.err # NoError THEN [g |-> r, err |-> mByte.err]
            ELSE
            LET sm == setSecureMessaging(r, capabilitiesByte.val, mByte.val)
            IN  IF sm.err # NoError THEN sm
                ELSE
                LET bs == getBytesWith1BasedIndexing(tag, 3, 4)
                IN  IF bs.err # NoError THEN [g |-> sm.g, err |-> bs.err]
                    ELSE
                    LET gc == setGetChallengeSupported(sm.g, capabilitiesByte.val, bs.val)
                    IN  IF gc.err # NoError THEN gc
                        ELSE loadExtendedTail(gc.g, tag, capabilitiesByte.val)

\* the resets loadExtendedData makes before it looks the tag up
resetExtendedData(r) ==
    [r EXCEPT !.SecureMessaging = NoSecureMessaging,
              !.MaximumChallengeLength = 0,
              !.MaximumCardholderCertificatesLength = 0,
              !.MaximumSpecialDOsLength = 0,
              !.PinBlock2Supported = FALSE,
              !.MSECommandSupported = FALSE]

loadExtendedDataAbsentFails(r) ==
    IF r.isNil
    THEN [g |-> r, err |-> ErrKeyNotPresent]
    ELSE LET g0 == resetExtendedData(r)
             tag == GetTag(g0, extendedCapabilitiesTag, 10)
         IN  IF tag.err # NoError THEN [g |-> g0, err |-> tag.err]
             ELSE loadExtendedTag(g0, tag.val)

loadExtendedData(r) ==
    IF r.isNil
    THEN [g |-> r, err |-> ErrKeyNotPresent]
    ELSE LET g0 == resetExtendedData(r)
             tag == GetTag(g0, extendedCapabilitiesTag, 10)
         IN  IF tag.err = ErrNoSuchTag THEN [g |-> g0, err |-> NoError]
             ELSE IF tag.err # NoError THEN [g |-> g0, err |-> tag.err]
             ELSE loadExtendedTag(g0, tag.val)

\* the assignments of update() between the identifier's length check and
\* the call of loadExtendedData
updateFields(r, aid, cardHolderBytes) ==
    LET Serial == FormatX(aid[11]) \o Format02X(aid[12]) \o Format02X(aid[13])
                    \o Format02X(aid[14])
        app == IF aid[6] = 1 THEN " (OpenPGP)" ELSE ""
        mfg == IF aid[9] = 0 /\ aid[10] = 6 THEN " (YubiCo)" ELSE ""
    IN  [r EXCEPT
           !.Serial = Serial,
           !.SerialInt = Uint32(Slice(aid, 10, 14)),
           !.LongName = r.Reader \o " SN " \o Serial \o " OpenPGP "
                          \o FormatX(aid[7]) \o "." \o FormatX(aid[8]),
           !.CardHolder = ParseCardHolderName(cardHolderBytes),
           !.Rid = UpperCaseHexString(Slice(aid, 0, 5)),
           !.Application = UpperCaseHexString(Slice(aid, 5, 6)) \o app,
           !.Version = FormatX(aid[7]) \o "." \o FormatX(aid[8]),
           !.Manufacturer = Format02X(aid[9]) \o Format02X(aid[10]) \o mfg]

updateCardHolderRequired(r) ==
    LET aid == GetTag(r, aidTag, 13)
        cardHolder == GetTag(r, cardHolderTag, 0)
    IN  IF aid.err # NoError THEN [g |-> r, err |-> aid.err]
        ELSE IF len(aid.val) < 14 THEN [g |-> r, err |-> Panic]
        ELSE IF cardHolder.err # NoError
        THEN [g |-> [r EXCEPT !.Serial = updateFields(r, aid.val, <<>>).Serial],
              err |-> cardHolder.err]
        ELSE loadExtendedData(updateFields(r, aid.val, cardHolder.val))

\* update(): the identity fields from the application identifier, the
\* cardholder name (the error of its GetTag is dropped), then the extended
\* capabilities.  aid[13] and aid[10:14] are reads of an identifier that
\* GetTag checked for 13 bytes only: with exactly 13 bytes the first
\* statement panics, before any field is assigned.
update(r) ==
    LET aid == GetTag(r, aidTag, 13)
        cardHolder == GetTag(r, cardHolderTag, 0)
    IN  IF aid.err # NoError THEN [g |-> r, err |-> aid.err]
        ELSE IF len(aid.val) < 14 THEN [g |-> r, err |-> Panic]
        ELSE loadExtendedData(updateFields(r, aid.val, cardHolder.val))

\* String(): the fixed template over the identity fields
String(r) ==
    IF r.isNil
    THEN [val |-> "", err |-> ErrKeyNotPresent]
    ELSE [val |-> "\n  Card:            " \o r.LongName
                  \o "\n  RID:             " \o r.Rid
                  \o "\n  Application:     " \o r.Application
                  \o "\n  Version:         " \o r.Version
                  \o "\n  Manufacturer:    " \o r.Manufacturer
                  \o "\n  Serial Number:   " \o r.Serial
                  \o "\n  Cardholder Name: " \o r.CardHolder \o "\n",
          err |-> NoError]

\* fmt verb %-4d on a byte
FormatLeft4(d) ==
    ToString(d) \o (IF d < 10 THEN "   " ELSE IF d < 100 THEN "  " ELSE " ")

\* Algorithm(keyType): the RSA branch is taken when data[0] > 0 && data[0] > 3
Algorithm(r, keyType) ==
    IF r.isNil THEN [val |-> "", err |-> ErrKeyNotPresent]
    ELSE IF keyType \notin {SignatureKey, DecryptionKey, AuthenticationKey}
    THEN [val |-> "", err |-> ErrNoSuchTag]
    ELSE
    LET key == CASE keyType = SignatureKey -> keyAlgorithmSignatureAttributesTag
                 [] keyType = DecryptionKey -> keyAlgorithmDecryptionAttributesTag
                 [] keyType = AuthenticationKey -> keyAlgorithmAuthenticationAttributesTag
        tag == GetTag(r, key, 1)
        data == tag.val
    IN  IF tag.err # NoError THEN [val |-> "", err |-> tag.err]
        ELSE IF data[1] > 0 /\ data[1] > 3
        THEN IF len(data) < 3
             THEN [val |-> "", err |-> ErrNoSuchAlgorithm]
             ELSE [val |-> "RSA " \o ToString((data[2] * 256 + data[3]) % 65536),
                   err |-> NoError]
        ELSE [val |-> "Alg=" \o FormatLeft4(data[1]), err |-> NoError]

Fingerprint(r, keyType) ==
    IF r.isNil THEN [val |-> "", err |-> ErrKeyNotPresent]
    ELSE
    LET k == getKeyLen(keyType, keyFingerprintLen)
        tag == GetTag(r, keyInformationTag, k.expectedLen)
    IN  IF tag.err # NoError THEN [val |-> "", err |-> tag.err]
        ELSE [val |-> UpperCaseHexString(Slice(tag.val, k.offset, k.expectedLen)),
              err |-> NoError]

ID(r, keyType) ==
    IF r.isNil THEN [val |-> "", err |-> ErrKeyNotPresent]
    ELSE
    LET expectedLen == getKeyLen(keyType, keyFingerprintLen).expectedLen
        tag == GetTag(r, keyInformationTag, expectedLen)
        start == expectedLen - 8
    IN  IF tag.err # NoError THEN [val |-> "", err |-> tag.err]
        ELSE [val |-> UpperCaseHexString(Slice(tag.val, start, expectedLen)),
              err |-> NoError]

\* time.Time{} and time.Unix(sec, 0)
ZeroTime == [isZero |-> TRUE, unix |-> 0]

Unix(sec) == [isZero |-> FALSE, unix |-> sec]

DateNilNoSuchTag(r, keyType) ==
    IF r.isNil THEN [val |-> ZeroTime, err |-> ErrNoSuchTag]
    ELSE
    LET k == getKeyLen(keyType, keyDateLen)
        tag == GetTag(r, keyDateTag, k.expectedLen)
    IN  IF tag.err # NoError THEN [val |-> ZeroTime, err |-> tag.err]
        ELSE [val |-> Unix(Uint32(Slice(tag.val, k.offset, k.expectedLen))),
              err |-> NoError]

Date(r, keyType) ==
    IF r.isNil THEN [val |-> ZeroTime, err |-> ErrKeyNotPresent]
    ELSE
    LET k == getKeyLen(keyType, keyDateLen)
        tag == GetTag(r, keyDateTag, k.expectedLen)
    IN  IF tag.err # NoError THEN [val |-> ZeroTime, err |-> tag.err]
        ELSE [val |-> Unix(Uint32(Slice(tag.val, k.offset, k.expectedLen))),
              err |-> NoError]

OriginNoRangeCheck(r, keyType) ==
    IF r.isNil THEN [val |-> KeyNotPresent, err |-> ErrKeyNotPresent]
    ELSE
    LET has == HasTag(r, keyOriginAttributesTag)
        tag == GetTag(r, keyOriginAttributesTag, KeyTypeSize)
    IN  IF has.len = 0 \/ ~has.ok THEN [val |-> KeyNotPresent, err |-> ErrKeyNotPresent]
        ELSE IF tag.err # NoError THEN [val |-> KeyNotPresent, err |-> tag.err]
        ELSE IF Offset(keyType) >= len(tag.val) THEN [val |-> KeyNotPresent, err |-> Panic]
        ELSE [val |-> tag.val[Offset(keyType) + 1], err |-> NoError]

Origin(r, keyType) ==
    IF r.isNil THEN [val |-> KeyNotPresent, err |-> ErrKeyNotPresent]
    ELSE
    LET has == HasTag(r, keyOriginAttributesTag)
        tag == GetTag(r, keyOriginAttributesTag, KeyTypeSize)
    IN  IF has.len = 0 \/ ~has.ok THEN [val |-> KeyNotPresent, err |-> ErrKeyNotPresent]
        ELSE IF tag.err # NoError THEN [val |-> KeyNotPresent, err |-> tag.err]
        ELSE IF Offset(keyType) >= len(tag.val) THEN [val |-> KeyNotPresent, err |-> Panic]
        ELSE LET keyValue == tag.val[Offset(keyType) + 1]
             IN  IF keyValue > KeyOriginLast
                 THEN [val |-> KeyNotPresent, err |-> ErrUnknownKeyOrigin]
                 ELSE [val |-> keyValue, err |-> NoError]

GetCardHolder(r) == IF r.isNil THEN "" ELSE r.CardHolder

GetVersion(r) == IF r.isNil THEN "" ELSE r.Version

GetAppletVersion(r) == IF r.isNil THEN "" ELSE r.AppletVersion

\* ------------------------------------------------- inputs of the record
\* a tag left out of the mapping
Absent == NilBytes

\* application identifiers: none, too short for GetTag, exactly the 13 bytes
\* GetTag asks for, 14 bytes, and the card's full 16 bytes
AidValues ==
    { Absent,
      <<210, 118, 0, 1, 36>>,
      <<210, 118, 0, 1, 36, 1, 3, 4, 0, 6, 18, 52, 86>>,
      <<210, 118, 0, 1, 36, 1, 3, 4, 0, 6, 18, 52, 86, 120>>,
      <<210, 118, 0, 1, 36, 1, 3, 4, 0, 6, 18, 52, 86, 120, 0, 0>>,
      <<210, 118, 0, 1, 36, 2, 2, 1, 0, 5, 1, 2, 3, 4, 0, 0>> }

\* cardholder names: none, empty, "DOE<<JOHN"
CardHolderValues == {Absent, <<>>, <<68, 79, 69, 60, 60, 74, 79, 72, 78>>}

\* byte 1 of the extended capabilities: no bit, each of the two gated bits
\* alone, both, all but secure messaging, all, and a mix of the plain flags
CapabilityBytes == {0, 128, 64, 192, 127, 255, 42}

\* byte 2: the known algorithms' ends, the first unknown one, the largest byte
AlgorithmBytes == {0, 3, 4, 255}

\* bytes 3-10
CapabilityTails == {<<0, 0, 0, 0, 0, 0, 0, 0>>, <<1, 2, 8, 0, 0, 255, 1, 255>>}

ExtendedValues ==
    {Absent, <<255, 1, 0, 255, 8, 0, 0, 255, 1>>}
    \cup {<<b1, b2>> \o tail :
            b1 \in CapabilityBytes, b2 \in AlgorithmBytes, tail \in CapabilityTails}

\* fingerprints: none, one key's, three keys' 60 bytes
FingerprintValues ==
    { Absent,
      [i \in 1 .. 20 |-> i],
      [i \in 1 .. 60 |-> (i * 7 + 3) % 256] }

DateValues == {Absent, <<0, 0, 0, 0, 101, 52, 86, 120, 127, 255, 255, 255>>}

\* origins: none, empty, shorter than KeyTypeSize, known codes, unknown codes
OriginValues ==
    { Absent, <<>>, <<1>>, <<0, 1, 2, 3>>, <<1, 4, 2, 255>>, <<3, 2, 1, 0, 9, 9>> }

\* algorithm attributes: none, empty, RSA codes 1 and 3 with and without a
\* modulus length, code 0, codes above 3 with and without two more bytes
AlgorithmValues ==
    { Absent, <<>>, <<1, 8, 0>>, <<1>>, <<3, 16, 0, 32, 0>>, <<0>>,
      <<4, 8, 0>>, <<19>>, <<22, 1>>, <<255, 255, 255>> }

TlvOf(assign) == [t \in {x \in DOMAIN assign : assign[x] # Absent} |-> assign[t]]

\* mappings that vary what update() and loadExtendedData() read
IdentityMaps ==
    { TlvOf([t \in {aidTag, cardHolderTag, extendedCapabilitiesTag} |->
                CASE t = aidTag -> aid
                  [] t = cardHolderTag -> ch
                  [] t = extendedCapabilitiesTag -> ext]) :
        aid \in AidValues, ch \in CardHolderValues, ext \in ExtendedValues }

\* mappings that vary what the per-key accessors read
KeyMaps ==
    { TlvOf([t \in { keyInformationTag, keyDateTag, keyOriginAttributesTag,
                     keyAlgorithmSignatureAttributesTag,
                     keyAlgorithmDecryptionAttributesTag,
                     keyAlgorithmAuthenticationAttributesTag } |->
                CASE t = keyInformationTag -> fp
                  [] t = keyDateTag -> date
                  [] t = keyOriginAttributesTag -> origin
                  [] t = keyAlgorithmSignatureAttributesTag -> alg
                  [] t = keyAlgorithmDecryptionAttributesTag -> <<2, 12, 0>>
                  [] t = keyAlgorithmAuthenticationAttributesTag -> <<18, 43>>]) :
        fp \in FingerprintValues, date \in DateValues, origin \in OriginValues,
        alg \in AlgorithmValues }

TlvMaps == IdentityMaps \cup KeyMaps

\* -------------------------------------------------- calls on the record
CallUpdate ==
    /\ ~g.isNil
    /\ LET r == update(g)
       IN  /\ g' = r.g
           /\ ret' = Result("update", <<>>, <<>>, r.err)

CallLoadExtendedData ==
    LET r == loadExtendedData(g)
    IN  /\ g' = r.g
        /\ ret' = Result("loadExtendedData", <<>>, <<>>, r.err)

CallString ==
    /\ ret' = LET r == String(g) IN Result("String", <<>>, r.val, r.err)
    /\ UNCHANGED g

CallAlgorithm ==
    \E keyType \in KeyTypes :
        /\ ret' = LET r == Algorithm(g, keyType)
                  IN  Result("Algorithm", <<keyType>>, r.val, r.err)
        /\ UNCHANGED g

CallFingerprint ==
    \E keyType \in KeyTypes :
        /\ ret' = LET r == Fingerprint(g, keyType)
                  IN  Result("Fingerprint", <<keyType>>, r.val, r.err)
        /\ UNCHANGED g

CallID ==
    \E keyType \in KeyTypes :
        /\ ret' = LET r == ID(g, keyType)
                  IN  Result("ID", <<keyType>>, r.val, r.err)
        /\ UNCHANGED g

CallDate ==
    \E keyType \in KeyTypes :
        /\ ret' = LET r == Date(g, keyType)
                  IN  Result("Date", <<keyType>>, r.val, r.err)
        /\ UNCHANGED g

CallOrigin ==
    \E keyType \in KeyTypes :
        /\ ret' = LET r == Origin(g, keyType)
                  IN  Result("Origin", <<keyType>>, r.val, r.err)
        /\ UNCHANGED g

CallGetCardHolder ==
    /\ ret' = Result("GetCardHolder", <<>>, GetCardHolder(g), NoError)
    /\ UNCHANGED g

CallGetVersion ==
    /\ ret' = Result("GetVersion", <<>>, GetVersion(g), NoError)
    /\ UNCHANGED g

CallGetAppletVersion ==
    /\ ret' = Result("GetAppletVersion", <<>>, GetAppletVersion(g), NoError)
    /\ UNCHANGED g

\* an absent record, or a record just constructed over some mapping
Init ==
    /\ g \in {Nil} \cup {NewGpgData(tlv) : tlv \in TlvMaps}
    /\ ret = NoCall

Next ==
    \/ CallUpdate
    \/ CallLoadExtendedData
    \/ CallString
    \/ CallAlgorithm
    \/ CallFingerprint
    \/ CallID
    \/ CallDate
    \/ CallOrigin
    \/ CallGetCardHolder
    \/ CallGetVersion
    \/ CallGetAppletVersion

Spec == Init /\ [][Next]_vars

\* ------------------------------------- the get-challenge capability
\* mappings that hold at most the extended-capabilities tag
ChallengeMaps ==
    {TlvOf([t \in {extendedCapabilitiesTag} |-> ext]) : ext \in ExtendedValues}

\* ranges handed to setGetChallengeSupported: nil, and 0 to 3 bytes
ChallengeRanges == {NilBytes, <<>>, <<1>>, <<1, 2>>, <<255, 255>>, <<1, 2, 3>>}

\* the record is as NewGpgData left it: no decode pass has changed it
Fresh(r) == ~r.isNil /\ r = NewGpgData(r.tlvValues)

\* loadExtendedData, remembering whether it ran on a fresh record
CallDecode ==
    LET r == loadExtendedData(g)
    IN  /\ g' = r.g
        /\ ret' = Result("loadExtendedData", <<Fresh(g)>>, <<>>, r.err)

CallSetGetChallengeSupported ==
    \E capabilitiesByte \in CapabilityBytes, challenge \in ChallengeRanges :
        LET r == setGetChallengeSupported(g, capabilitiesByte, challenge)
        IN  /\ g' = r.g
            /\ ret' = Result("setGetChallengeSupported",
                             <<capabilitiesByte, challenge>>, <<>>, r.err)

InitChallenge ==
    /\ g \in {NewGpgData(tlv) : tlv \in ChallengeMaps}
    /\ ret = NoCall

NextChallenge == CallDecode \/ CallSetGetChallengeSupported

SpecChallenge == InitChallenge /\ [][NextChallenge]_vars

\* ------------------------------------------- repeated decode passes
\* extended capabilities a card may answer with from one pass to the next
RebuildExtendedValues ==
    {Absent}
    \cup {<<b1, b2>> \o tail :
            b1 \in {0, 128, 64, 42, 255}, b2 \in {3, 255}, tail \in CapabilityTails}

\* mappings with the card's 16-byte application identifier and, or not, an
\* extended-capabilities tag
RebuildMaps ==
    { TlvOf([t \in {aidTag, extendedCapabilitiesTag} |->
                CASE t = aidTag ->
                       <<210, 118, 0, 1, 36, 1, 3, 4, 0, 6, 18, 52, 86, 120, 0, 0>>
                  [] t = extendedCapabilitiesTag -> ext]) :
        ext \in RebuildExtendedValues }

\* the record is given the mapping of a newly parsed card response; update()
\* "assumes tlvValues is set"
SetTlvValues ==
    \E tlv \in RebuildMaps :
        /\ ~g.isNil
        /\ tlv # g.tlvValues
        /\ g' = [g EXCEPT !.tlvValues = tlv]
        /\ ret' = Result("SetTlvValues", <<>>, <<>>, NoError)

InitRebuild ==
    /\ g \in {NewGpgData(tlv) : tlv \in RebuildMaps}
    /\ ret = NoCall

NextRebuild == SetTlvValues \/ CallUpdate \/ CallLoadExtendedData

SpecRebuild == InitRebuild /\ [][NextRebuild]_vars

\* ------------------------------------------------------------ claims
Done(op) == ret.op = op /\ ret.err # Pending

\* C1: on a block of N >= 1 bytes, byte 1 is read and is the first byte,
\* byte N+1 is ErrNotFound, range (N, N) is read and is exactly the last
\* byte, range (1, N+1) is ErrNotFound; on an empty or nil block every
\* 1-based position and every range of 1-based positions is ErrNotFound.
C1_AccessorBoundary ==
    /\ Done("getByteWith1BasedIndexing") =>
         LET b == ret.arg[1]
             index == ret.arg[2]
             N == len(b)
         IN  /\ (N >= 1 /\ index = 1) => (ret.err = NoError /\ ret.val = b[1])
             /\ (N >= 1 /\ index = N + 1) => ret.err = ErrNotFound
             /\ (N = 0 /\ index >= 1) => ret.err = ErrNotFound
    /\ Done("getBytesWith1BasedIndexing") =>
         LET b == ret.arg[1]
             start == ret.arg[2]
             end == ret.arg[3]
             N == len(b)
         IN  /\ (N >= 1 /\ start = N /\ end = N) =>
                    (ret.err = NoError /\ ret.val = <<b[N]>>)
             /\ (N >= 1 /\ start = 1 /\ end = N + 1) => ret.err = ErrNotFound
             /\ (N = 0 /\ start >= 1 /\ end >= 1) => ret.err = ErrNotFound

\* the last byte of a 3-byte block was read as range (3, 3)
C1_Witness ==
    /\ Done("getBytesWith1BasedIndexing")
    /\ ret.arg = <<(<<0, 7, 255>>), 3, 3>>
    /\ ret.err = NoError
    /\ ret.val = <<255>>

\* the 0-based positions at which "<<" starts in name
MarkerAt(name) ==
    {i \in 0 .. (Len(name) - 2) : name[i + 1] = LessThan /\ name[i + 2] = LessThan}

Spaced(bytes) ==
    string([k \in 1 .. Len(bytes) |-> IF bytes[k] = LessThan THEN Space ELSE bytes[k]])

\* C5: ParseCardHolderName gives "[not set]" for a zero-length input; else,
\* with i the first occurrence of "<<", the text after the marker, a newline
\* iff that text is non-empty, then the text before the marker with every
\* '<' replaced by a space; without a marker the whole input with every '<'
\* replaced by a space.  "DOE<<JOHN" gives "JOHN\nDOE", "DOE" gives "DOE",
\* "VAN<DER<BERG<<ANNA" gives "ANNA\nVAN DER BERG".
C5_NameNormalized ==
    Done("ParseCardHolderName") =>
        LET name == ret.arg[1]
        IN  /\ len(name) = 0 => ret.val = "[not set]"
            /\ (len(name) > 0 /\ MarkerAt(name) = {}) => ret.val = Spaced(name)
            /\ (len(name) > 0 /\ MarkerAt(name) # {}) =>
                 LET i == CHOOSE x \in MarkerAt(name) : \A y \in MarkerAt(name) : x <= y
                     before == SubSeq(name, 1, i)
                     after == SubSeq(name, i + 3, Len(name))
                 IN  ret.val = string(after)
                                 \o (IF after # <<>> THEN "\n" ELSE "")
                                 \o Spaced(before)
            /\ name = <<68, 79, 69, 60, 60, 74, 79, 72, 78>> => ret.val = "JOHN\nDOE"
            /\ name = <<68, 79, 69>> => ret.val = "DOE"
            /\ name = <<86, 65, 78, 60, 68, 69, 82, 60, 66, 69, 82, 71, 60, 60, 65, 78, 78, 65>>
                 => ret.val = "ANNA\nVAN DER BERG"

\* "VAN<DER<BERG<<ANNA" was normalized
C5_Witness ==
    /\ Done("ParseCardHolderName")
    /\ ret.arg[1] = <<86, 65, 78, 60, 68, 69, 82, 60, 66, 69, 82, 71, 60, 60, 65, 78, 78, 65>>
    /\ ret.val = "ANNA\nVAN DER BERG"

\* the extended-capabilities tag of the record, and whether the last call
\* was a decode pass over it
HasExtended == ~g.isNil /\ extendedCapabilitiesTag \in DOMAIN g.tlvValues

Extended == g.tlvValues[extendedCapabilitiesTag]

\* update() got past the application identifier
UpdateRan ==
    /\ Done("update")
    /\ aidTag \in DOMAIN g.tlvValues
    /\ Len(g.tlvValues[aidTag]) >= 14

Decoded == ~g.isNil /\ (Done("loadExtendedData") \/ UpdateRan)

SecureMessagingBitSet == (Extended[1] \div 128) % 2 = 1

\* C2: with the extended-capabilities tag absent from the mapping,
\* loadExtendedData returns no error and every capability field is at its
\* zero/false default afterwards.
C2_AbsentTagDefaults ==
    (Done("loadExtendedData") /\ ~g.isNil /\ ~HasExtended) =>
        /\ ret.err = NoError
        /\ ~g.SecureMessagingSupported
        /\ g.SecureMessaging = 0
        /\ ~g.GetChallengeSupported
        /\ g.MaximumChallengeLength = 0
        /\ ~g.KeyImportSupported
        /\ ~g.PWStatusChangeable
        /\ ~g.PrivateUseDOsSupported
        /\ ~g.AlgorithmAttributesChangeable
        /\ ~g.SupportsPSODecryptionEncryptionWithAES
        /\ ~g.KDFSupported
        /\ ~g.PinBlock2Supported
        /\ ~g.MSECommandSupported
        /\ g.MaximumCardholderCertificatesLength = 0
        /\ g.MaximumSpecialDOsLength = 0

\* loadExtendedData ran on an updated record whose mapping has no
\* extended-capabilities tag
C2_Witness ==
    /\ Done("loadExtendedData")
    /\ ~g.isNil
    /\ ~HasExtended
    /\ g.Serial = "12345678"
    /\ ret.err = NoError

\* C3: decoding a 10-byte extended-capabilities tag: with the
\* secure-messaging bit of byte 1 set and byte 2 a known algorithm,
\* SecureMessagingSupported is true and SecureMessaging is byte 2; with the
\* bit cleared SecureMessagingSupported is false and SecureMessaging is
\* NoSecureMessaging, whatever byte 2 holds.
C3_SecureMessagingDecoded ==
    (Decoded /\ HasExtended /\ Len(Extended) = 10) =>
        /\ (SecureMessagingBitSet /\ Extended[2] <= SecureMessagingAlgorithmLast) =>
              (g.SecureMessagingSupported /\ g.SecureMessaging = Extended[2])
        /\ ~SecureMessagingBitSet =>
              (~g.SecureMessagingSupported /\ g.SecureMessaging = NoSecureMessaging)

\* a tag with only the secure-messaging bit set and algorithm 3 was decoded
C3_Witness ==
    /\ Decoded /\ HasExtended /\ Len(Extended) = 10
    /\ Extended[1] = 128 /\ Extended[2] = 3
    /\ g.SecureMessagingSupported /\ g.SecureMessaging = 3

\* C4: with the secure-messaging bit set and byte 2 above
\* SecureMessagingAlgorithmLast, decoding fails with ErrNoSuchAlgorithm,
\* loadExtendedData and update hand the failure to the caller, and
\* SecureMessagingSupported is not raised; with the bit clear no value of
\* byte 2 makes decoding fail.
C4_UnknownAlgorithmFails ==
    (Decoded /\ HasExtended /\ Len(Extended) = 10) =>
        /\ (SecureMessagingBitSet /\ Extended[2] > SecureMessagingAlgorithmLast) =>
              (ret.err = ErrNoSuchAlgorithm /\ ~g.SecureMessagingSupported)
        /\ ~SecureMessagingBitSet => ret.err = NoError

\* update ran into byte 2 = 255 under a set secure-messaging bit
C4_Witness ==
    /\ UpdateRan /\ HasExtended /\ Len(Extended) = 10
    /\ Extended[1] = 255 /\ Extended[2] = 255
    /\ ret.err = ErrNoSuchAlgorithm

\* the fingerprint tag of the record
HasFingerprints == ~g.isNil /\ keyInformationTag \in DOMAIN g.tlvValues

Fingerprints == g.tlvValues[keyInformationTag]

\* C6: for a fingerprint tag of 60 bytes and a key type of ordinal k in
\* {0,1,2}, Fingerprint(k) is the uppercase hex of the 20 bytes at 0-based
\* positions 20k .. 20k+19 and ID(k) the uppercase hex of the last 8 of
\* them, so ID(k) is the last 16 hex characters of Fingerprint(k).
C6_FingerprintAndID ==
    (HasFingerprints /\ Len(Fingerprints) = 60 /\ ret.arg # <<>> /\ ret.arg[1] \in 0 .. 2) =>
        LET k == ret.arg[1]
        IN  /\ Done("Fingerprint") =>
                 /\ ret.err = NoError
                 /\ ret.val = UpperCaseHexString(
                                [i \in 1 .. 20 |-> Fingerprints[20 * k + i]])
            /\ Done("ID") =>
                 /\ ret.err = NoError
                 /\ ret.val = UpperCaseHexString(
                                [i \in 1 .. 8 |-> Fingerprints[20 * k + 12 + i]])
                 /\ Fingerprint(g, k).val =
                      UpperCaseHexString([i \in 1 .. 12 |-> Fingerprints[20 * k + i]])
                        \o ret.val

\* the ID of the authentication key was read from bytes 53-60 of 60
C6_Witness ==
    /\ Done("ID")
    /\ ret.arg = <<2>>
    /\ HasFingerprints /\ Len(Fingerprints) = 60
    /\ ret.err = NoError
    /\ ret.val = UpperCaseHexString([i \in 1 .. 8 |-> Fingerprints[52 + i]])

HasOrigins == ~g.isNil /\ keyOriginAttributesTag \in DOMAIN g.tlvValues

Origins == g.tlvValues[keyOriginAttributesTag]

\* C7 as stated: Origin(keyType) on a constructed record: with the origin
\* tag absent or of zero length it fails with ErrKeyNotPresent and returns
\* KeyNotPresent; with the tag present and the byte read for the key type
\* above KeyOriginLast it fails with ErrUnknownKeyOrigin; otherwise it
\* returns the KeyOrigin equal to that byte with no error.  Every present
\* tag of one byte or more falls in one of the last two cases.
C7_OriginAsStated ==
    (Done("Origin") /\ ~g.isNil) =>
        LET keyType == ret.arg[1]
        IN  /\ (~HasOrigins \/ (HasOrigins /\ Len(Origins) = 0)) =>
                  (ret.err = ErrKeyNotPresent /\ ret.val = KeyNotPresent)
            /\ (HasOrigins /\ Len(Origins) > 0) =>
                  /\ Offset(keyType) < Len(Origins)
                  /\ LET read == Origins[Offset(keyType) + 1]
                     IN  /\ read > KeyOriginLast => ret.err = ErrUnknownKeyOrigin
                         /\ read <= KeyOriginLast =>
                               (ret.err = NoError /\ ret.val = read)

\* C7, amended: as above where the tag holds at least the KeyTypeSize
\* bytes GetTag is asked for; a present tag of one byte or more but fewer
\* than KeyTypeSize bytes makes Origin fail with ErrTooShort and return
\* KeyNotPresent for every key type, whether or not the tag holds a byte
\* at the key type's offset.
C7_Origin ==
    (Done("Origin") /\ ~g.isNil) =>
        LET keyType == ret.arg[1]
        IN  /\ (~HasOrigins \/ (HasOrigins /\ Len(Origins) = 0)) =>
                  (ret.err = ErrKeyNotPresent /\ ret.val = KeyNotPresent)
            /\ (HasOrigins /\ Len(Origins) > 0 /\ Len(Origins) < KeyTypeSize) =>
                  (ret.err = ErrTooShort /\ ret.val = KeyNotPresent)
            /\ (HasOrigins /\ Len(Origins) >= KeyTypeSize) =>
                  LET read == Origins[Offset(keyType) + 1]
                  IN  /\ read > KeyOriginLast => ret.err = ErrUnknownKeyOrigin
                      /\ read <= KeyOriginLast =>
                            (ret.err = NoError /\ ret.val = read)

\* Origin was asked for the signature key of a one-byte origin tag: the tag
\* holds a byte at the key's offset, and Origin fails with ErrTooShort
C7_Witness ==
    /\ Done("Origin")
    /\ HasOrigins
    /\ Origins = <<1>>
    /\ ret.arg = <<SignatureKey>>
    /\ ret.err = ErrTooShort
    /\ ret.val = KeyNotPresent

\* C8: on an absent (nil) record Algorithm, Fingerprint, ID, Date and
\* Origin for every key type, and String, fail with ErrKeyNotPresent
\* without a panic, and GetCardHolder, GetVersion and GetAppletVersion
\* return the empty string without failing.
C8_NilRecord ==
    g.isNil =>
        /\ (\E op \in {"Algorithm", "Fingerprint", "ID", "Date", "Origin", "String"} :
               Done(op)) => ret.err = ErrKeyNotPresent
        /\ (\E op \in {"GetCardHolder", "GetVersion", "GetAppletVersion"} : Done(op)) =>
               (ret.val = "" /\ ret.err = NoError)

\* Date was asked of the absent record for the attestation key
C8_Witness ==
    /\ g.isNil
    /\ Done("Date")
    /\ ret.arg = <<3>>
    /\ ret.err = ErrKeyNotPresent

\* the algorithm-attributes tag Algorithm(keyType) reads
AlgorithmTag(keyType) ==
    CASE keyType = 0 -> "6E.73.C1"
      [] keyType = 1 -> "6E.73.C2"
      [] keyType = 2 -> "6E.73.C3"

\* C9: Algorithm(keyType) for the signature, decryption and authentication
\* keys, as documented: with the first byte of the key's algorithm
\* attributes in 1..3 it returns "RSA <n>", n = byte[1]*256 + byte[2]; for
\* every other first byte it returns "Alg=<code>", the code left-aligned in
\* width 4.
C9_AlgorithmAsDocumented ==
    (Done("Algorithm") /\ ~g.isNil /\ ret.arg[1] \in 0 .. 2) =>
        LET tag == AlgorithmTag(ret.arg[1])
            ka == g.tlvValues[tag]
        IN  (tag \in DOMAIN g.tlvValues /\ Len(ka) >= 1) =>
               /\ (ka[1] \in 1 .. 3 /\ Len(ka) >= 3) =>
                     (ret.err = NoError
                        /\ ret.val = "RSA " \o ToString(ka[2] * 256 + ka[3]))
               /\ ka[1] \notin 1 .. 3 =>
                     (ret.err = NoError
                        /\ ret.val = "Alg=" \o ToString(ka[1])
                             \o (IF ka[1] < 10 THEN "   "
                                 ELSE IF ka[1] < 100 THEN "  " ELSE " "))

\* C10 as stated: with the cardholder-name tag absent from the mapping,
\* update does not fail on that account and CardHolder is the empty name.
C10_EmptyName ==
    (UpdateRan /\ cardHolderTag \notin DOMAIN g.tlvValues) =>
        (ret.err # ErrNoSuchTag /\ g.CardHolder = "")

\* C10, amended: with the cardholder-name tag absent from the mapping, an
\* update that gets past the reads of the application identifier does not
\* fail on that account (it fails only as the decoding of the extended
\* capabilities does) and CardHolder is the sentinel "[not set]".
C10_NameNotSet ==
    (UpdateRan /\ cardHolderTag \notin DOMAIN g.tlvValues) =>
        /\ ret.err # ErrNoSuchTag
        /\ ~HasExtended => ret.err = NoError
        /\ g.CardHolder = "[not set]"

\* update ran to its end over a mapping without a cardholder name
C10_Witness ==
    /\ UpdateRan
    /\ cardHolderTag \notin DOMAIN g.tlvValues
    /\ ret.err = NoError
    /\ g.Version = "3.4"
    /\ g.CardHolder = "[not set]"

\* C11: update over any mapping ends by returning success or an error value
\* and never aborts with an out-of-range read: for every length of the
\* application identifier, the 13 bytes update asks GetTag for included, the
\* reads of identifier bytes stay inside the identifier.
C11_UpdateNeverPanics ==
    Done("update") => ret.err # Panic

\* C14: for every block and every pair of integers start, end,
\* getBytesWith1BasedIndexing returns ErrNotFound or exactly the
\* end-start+1 bytes at 1-based positions start..end, and never panics;
\* getByteWith1BasedIndexing, for every integer index, returns ErrNotFound
\* or the byte at 1-based position index.
C14_AccessorsTotal ==
    /\ Done("getBytesWith1BasedIndexing") =>
         LET b == ret.arg[1]
             start == ret.arg[2]
             end == ret.arg[3]
         IN  \/ ret.err = ErrNotFound
             \/ /\ ret.err = NoError
                /\ start >= 1
                /\ end <= len(b)
                /\ ret.val = [i \in 1 .. (end - start + 1) |-> b[start - 1 + i]]
    /\ Done("getByteWith1BasedIndexing") =>
         LET b == ret.arg[1]
             index == ret.arg[2]
         IN  \/ ret.err = ErrNotFound
             \/ /\ ret.err = NoError
                /\ index >= 1
                /\ index <= len(b)
                /\ ret.val = b[index]

\* a decode pass over a present 10-byte tag has just run on a fresh record
DecodedFresh10 ==
    /\ Done("loadExtendedData")
    /\ ret.arg = <<TRUE>>
    /\ HasExtended
    /\ Len(Extended) = 10

GetChallengeBitSet == (Extended[1] \div 64) % 2 = 1

\* what setGetChallengeSupported must do with a range that is not 2 bytes
\* long under a set get-challenge bit
ChallengeRangeChecked ==
    Done("setGetChallengeSupported") =>
        (((ret.arg[1] \div 64) % 2 = 1 /\ len(ret.arg[2]) # 2) => ret.err = ErrTooShort)

\* C12 as stated: decoding a present 10-byte extended-capabilities tag on a
\* fresh record, GetChallengeSupported is true iff the get-challenge bit of
\* byte 1 is set; MaximumChallengeLength is bytes 3-4 big-endian when it is
\* set and 0 when it is clear; setGetChallengeSupported fails with
\* ErrTooShort when the bit is set and the range is not exactly 2 bytes.
C12_GetChallengeAsStated ==
    /\ DecodedFresh10 =>
         /\ g.GetChallengeSupported <=> GetChallengeBitSet
         /\ GetChallengeBitSet =>
               g.MaximumChallengeLength = Extended[3] * 256 + Extended[4]
         /\ ~GetChallengeBitSet => g.MaximumChallengeLength = 0
    /\ ChallengeRangeChecked

\* C12, amended: as stated when the decode pass returns no error; when it
\* fails (the secure-messaging bit is set and byte 2 is above
\* SecureMessagingAlgorithmLast) it stops before bytes 3-4 and leaves
\* GetChallengeSupported false and MaximumChallengeLength 0, whatever the
\* get-challenge bit.
C12_GetChallengeDecoded ==
    /\ DecodedFresh10 =>
         /\ ret.err = NoError =>
               /\ g.GetChallengeSupported <=> GetChallengeBitSet
               /\ GetChallengeBitSet =>
                     g.MaximumChallengeLength = Extended[3] * 256 + Extended[4]
         /\ ret.err # NoError =>
               /\ ret.err = ErrNoSuchAlgorithm
               /\ (Extended[1] \div 128) % 2 = 1
               /\ Extended[2] > SecureMessagingAlgorithmLast
               /\ ~g.GetChallengeSupported
               /\ g.MaximumChallengeLength = 0
         /\ ~GetChallengeBitSet =>
               (~g.GetChallengeSupported /\ g.MaximumChallengeLength = 0)
    /\ ChallengeRangeChecked

\* a fresh record decoded a tag with only the get-challenge bit set and
\* bytes 3-4 = 01 02
C12_Witness ==
    /\ DecodedFresh10
    /\ Extended[1] = 64
    /\ Extended[3] = 1 /\ Extended[4] = 2
    /\ ret.err = NoError
    /\ g.GetChallengeSupported
    /\ g.MaximumChallengeLength = 258

\* the capability set of a record
Capabilities(r) ==
    [ SecureMessagingSupported |-> r.SecureMessagingSupported,
      SecureMessaging |-> r.SecureMessaging,
      GetChallengeSupported |-> r.GetChallengeSupported,
      MaximumChallengeLength |-> r.MaximumChallengeLength,
      KeyImportSupported |-> r.KeyImportSupported,
      PWStatusChangeable |-> r.PWStatusChangeable,
      PrivateUseDOsSupported |-> r.PrivateUseDOsSupported,
      AlgorithmAttributesChangeable |-> r.AlgorithmAttributesChangeable,
      SupportsPSODecryptionEncryptionWithAES |-> r.SupportsPSODecryptionEncryptionWithAES,
      KDFSupported |-> r.KDFSupported,
      PinBlock2Supported |-> r.PinBlock2Supported,
      MSECommandSupported |-> r.MSECommandSupported,
      MaximumCardholderCertificatesLength |-> r.MaximumCardholderCertificatesLength,
      MaximumSpecialDOsLength |-> r.MaximumSpecialDOsLength ]

\* C13: after any sequence of decode passes (update / loadExtendedData) on
\* one record, each over its own mapping, the capability set is the one a
\* fresh record has after decoding the last mapping alone: no flag raised by
\* an earlier pass survives a pass whose tag is absent or has the bit clear.
C13_LastMappingDecides ==
    Decoded =>
        Capabilities(g) = Capabilities(loadExtendedData(NewGpgData(g.tlvValues)).g)

====
